---- MODULE Spec2Model ----
(***************************************************************************)
(* A model of import/import.py: the bounded-concurrency bulk uploader      *)
(* (upload_images_bulk, upload_image), the asset key generator             *)
(* (gen_image_key) and the summit grouper/exporter (import_summits).       *)
(*                                                                         *)
(* Strings are sequences of one-character strings, so that concatenation,  *)
(* transliteration and key equality are computed, not assumed.             *)
(***************************************************************************)
EXTENDS Integers, Sequences, FiniteSets, TLC

VARIABLES
    \* ---- object storage and one call of upload_images_bulk
    tasks,              \* the list `images`: <<local path, destination key>>
    store,              \* keys held by the bucket
    store0,             \* the bucket before the first call (history)
    sem,                \* value of asyncio.Semaphore(10)
    st,                 \* per task: where its coroutine sem_upload is
    probeRes,           \* per task: what head_object reported to it
    puts,               \* per task: the upload_file calls it issued, this call
    putLog,             \* per key: upload_file calls issued, all calls together
    bulk,               \* where asyncio.run(upload_images_bulk(...)) is
    run,                \* number of the current call
    flaky,              \* keys on which the remote service can fail
    local,              \* the files that exist under the local image directory
    \* ---- import_summits
    rows,               \* the cursor's row stream
    pos,                \* index of the next row the cursor yields
    summit,             \* groupby's current key, row[:8]
    summit_data,        \* the document being built
    i,                  \* position counter of the current summit
    images_to_upload,   \* the family's transfer list
    writeLog,           \* every yaml.dump done, in order: <<file, document>>
    docs,               \* the files under DEST_DIR: file -> document
    sphase,             \* where import_summits is
    \* ---- import_ridges
    ridge_rows,         \* the cursor's rows: <<id, name, color>>
    rpos,               \* index of the next ridge row
    dirs,               \* the ridge directories under DEST_DIR: dir -> _meta.yaml
    rphase,             \* where import_ridges is
    \* ---- import_users, import_climbs and the mirror store
    user_rows,          \* the users cursor: <<id, oauth_id, src, name, image, preview>>
    upos,               \* index of the next user row
    user_images_to_upload,  \* import_users' transfer list
    climb_rows,         \* the climbs cursor
    cpos,               \* index of the next climb row
    db,                 \* the mirror store as committed
    txn,                \* the mirror store as the open connection sees it
    mphase,             \* where import_users / import_climbs are
    mrun,               \* number of the current run of main
    commits             \* history: commits done, per family

upVars ==
    <<tasks, store, store0, sem, st, probeRes, puts, putLog, bulk, run, flaky, local>>
sumVars == <<rows, pos, summit, summit_data, i, images_to_upload, writeLog, docs, sphase>>
ridVars == <<ridge_rows, rpos, dirs, rphase>>
mirVars == <<user_rows, upos, user_images_to_upload, climb_rows, cpos, db, txn, mphase,
             mrun, commits>>
vars == <<tasks, store, store0, sem, st, probeRes, puts, putLog, bulk, run, flaky, local,
          rows, pos, summit, summit_data, i, images_to_upload, writeLog, docs, sphase,
          ridge_rows, rpos, dirs, rphase,
          user_rows, upos, user_images_to_upload, climb_rows, cpos, db, txn, mphase,
          mrun, commits>>

-----------------------------------------------------------------------------
(* Bounds of the model *)

\* longest task list handed to the uploader in SpecBulk
MaxTasks == 2
\* calls of upload_images_bulk in sequence in SpecBulk
MaxRuns == 2
\* tasks beyond the semaphore's limit in SpecSem
ExtraTasks == 1
\* longest row stream in SpecSummits
MaxRows == 3
\* longest users cursor in SpecMirror
MaxUsers == 2
\* longest row stream in SpecPipeline
MaxPipeRows == 2

-----------------------------------------------------------------------------
(* Strings *)

\* Python's None, for values that are otherwise sequences
None == <<"<None>">>

\* str(n) for n >= 0, in decimal
Digit(d) == <<CASE d = 0 -> "0" [] d = 1 -> "1" [] d = 2 -> "2" [] d = 3 -> "3"
                [] d = 4 -> "4" [] d = 5 -> "5" [] d = 6 -> "6" [] d = 7 -> "7"
                [] d = 8 -> "8" [] OTHER -> "9">>

RECURSIVE Str(_)
Str(n) == IF n < 10 THEN Digit(n) ELSE Str(n \div 10) \o Digit(n % 10)

-----------------------------------------------------------------------------
(* The bulk uploader *)

\* asyncio.Semaphore(10)
SemLimit == 10

\* st[t] is one of "created", "waiting", "probing", "uploading", "ok" (uploaded),
\* "skip" (already in the bucket), "err", "cancelled"

Tasks == DOMAIN tasks

PathOf(t) == tasks[t][1]

KeyOf(t) == tasks[t][2]

KeysOf(list) == {list[t][2] : t \in DOMAIN list}

\* tasks inside upload_image: a probe or an upload in progress
InFlight == {t \in Tasks : st[t] \in {"probing", "uploading"}}

\* a semaphore that never suspends its caller
SemNeverLocked == FALSE

\* the semaphore has no permit left: `async with sem` suspends
SemLocked == sem = 0

\* a permit that is kept when the task ends
SemKept(n) == n

\* leaving `async with sem` gives the permit back, on return and on exception
SemRelease(n) == n + 1

\* client.head_object(Bucket, Key): the object is there, a 404 ClientError, or
\* any other failure (another ClientError code, a connection error)
HeadObject(key) ==
    {IF key \in store THEN "exists" ELSE "notfound"}
        \cup (IF key \in flaky THEN {"error"} ELSE {})

\* client.upload_file(path, bucket, key): stored, or a failure; a local file
\* that does not exist cannot be opened (FileNotFoundError)
UploadFile(path, key) ==
    IF path \notin local THEN {"error"}
    ELSE {"stored"} \cup (IF key \in flaky THEN {"error"} ELSE {})

\* every failed probe is taken for a missing object
IsAnyFailure(res) == res # "exists"

\* e.response["Error"]["Code"] == "404"
IsNotFound(res) == res = "notfound"

\* the upload sent to the path's name instead of the key
PutArgsPathAsKey(t) == <<PathOf(t), PathOf(t)>>

\* upload_file(image_path, S3_BUCKET, image_name, ...): what is put, and where
PutArgs(t) == <<PathOf(t), KeyOf(t)>>

\* a task ended by an exception: gather (return_exceptions=False) hands the first
\* one to the awaiting upload_images_bulk at once, the siblings keep running
Raised == IF bulk = "running" THEN "raising" ELSE bulk

\* the state a call starts in: a fresh semaphore, every sem_upload created by gather
BulkStarts(list) ==
    /\ tasks' = list
    /\ sem' = SemLimit
    /\ st' = [t \in DOMAIN list |-> "created"]
    /\ probeRes' = [t \in DOMAIN list |-> "none"]
    /\ puts' = [t \in DOMAIN list |-> <<>>]
    /\ putLog' = [k \in DOMAIN putLog \cup KeysOf(list) |->
                    IF k \in DOMAIN putLog THEN putLog[k] ELSE 0]
    /\ bulk' = "running"
    /\ run' = run + 1

\* no task is still to run for the first time: gather's tasks are scheduled before
\* upload_images_bulk suspends, so each of them reaches `async with sem` before the
\* event loop hands any response to a task
AllStarted == \A u \in Tasks : st[u] # "created"

\* sem_upload at `async with sem`: run for the first time it takes a permit and
\* upload_image sends its probe, or with none left it queues; a queued task takes
\* the permit a finished task gave back. Tasks run for the first time in list
\* order and the semaphore wakes its waiters in order.
SemAcquire(t) ==
    /\ bulk \in {"running", "raising"}
    /\ \/ st[t] = "created" /\ \A u \in Tasks : u < t => st[u] # "created"
       \/ st[t] = "waiting" /\ ~SemLocked /\ \A u \in Tasks : u < t => st[u] # "waiting"
    /\ IF SemLocked
       THEN /\ st' = [st EXCEPT ![t] = "waiting"]
            /\ UNCHANGED sem
       ELSE /\ st' = [st EXCEPT ![t] = "probing"]
            /\ sem' = sem - 1
    /\ UNCHANGED <<tasks, store, store0, probeRes, puts, putLog, bulk, run, flaky, local>>
    /\ UNCHANGED <<sumVars, ridVars, mirVars>>

\* head_object returns to upload_image
ProbeReturns(t) ==
    /\ bulk \in {"running", "raising"}
    /\ AllStarted
    /\ st[t] = "probing"
    /\ \E res \in HeadObject(KeyOf(t)) :
        /\ probeRes' = [probeRes EXCEPT ![t] = res]
        /\ IF res = "exists"
           THEN /\ st' = [st EXCEPT ![t] = "skip"]
                /\ sem' = SemRelease(sem)
                /\ UNCHANGED <<puts, putLog, bulk>>
           ELSE IF IsNotFound(res)
           THEN /\ st' = [st EXCEPT ![t] = "uploading"]
                /\ puts' = [puts EXCEPT ![t] = Append(@, PutArgs(t))]
                /\ putLog' = [putLog EXCEPT ![KeyOf(t)] = @ + 1]
                /\ UNCHANGED <<sem, bulk>>
           ELSE /\ st' = [st EXCEPT ![t] = "err"]
                /\ sem' = SemRelease(sem)
                /\ bulk' = Raised
                /\ UNCHANGED <<puts, putLog>>
    /\ UNCHANGED <<tasks, store, store0, run, flaky, local>>
    /\ UNCHANGED <<sumVars, ridVars, mirVars>>

\* upload_file returns to upload_image
UploadReturns(t) ==
    /\ bulk \in {"running", "raising"}
    /\ AllStarted
    /\ st[t] = "uploading"
    /\ \E res \in UploadFile(PathOf(t), KeyOf(t)) :
        IF res = "stored"
        THEN /\ store' = store \cup {KeyOf(t)}
             /\ st' = [st EXCEPT ![t] = "ok"]
             /\ UNCHANGED bulk
        ELSE /\ st' = [st EXCEPT ![t] = "err"]
             /\ bulk' = Raised
             /\ UNCHANGED store
    /\ sem' = SemRelease(sem)
    /\ UNCHANGED <<tasks, store0, probeRes, puts, putLog, run, flaky, local>>
    /\ UNCHANGED <<sumVars, ridVars, mirVars>>

\* every task returned: gather returns, the client is closed, asyncio.run returns
GatherReturns ==
    /\ bulk = "running"
    /\ \A t \in Tasks : st[t] \in {"ok", "skip"}
    /\ bulk' = "returned"
    /\ UNCHANGED <<tasks, store, store0, sem, st, probeRes, puts, putLog, run, flaky, local>>
    /\ UNCHANGED <<sumVars, ridVars, mirVars>>

\* the exception leaves upload_images_bulk: asyncio.run cancels every task that
\* is not done, waits for them, and raises in the caller
CancelAll ==
    /\ bulk = "raising"
    /\ st' = [t \in Tasks |-> IF st[t] \in {"created", "waiting", "probing", "uploading"}
                              THEN "cancelled" ELSE st[t]]
    /\ sem' = sem + Cardinality(InFlight)
    /\ bulk' = "failed"
    /\ UNCHANGED <<tasks, store, store0, probeRes, puts, putLog, run, flaky, local>>
    /\ UNCHANGED <<sumVars, ridVars, mirVars>>

\* the uploader is called again with the same list, on the bucket as it is
Rerun ==
    /\ bulk = "returned"
    /\ run < MaxRuns
    /\ BulkStarts(tasks)
    /\ UNCHANGED <<store, store0, flaky, local>>
    /\ UNCHANGED <<sumVars, ridVars, mirVars>>

-----------------------------------------------------------------------------
(* The asset key generator *)

\* translit(comment, "ru", reversed=True), one character: Cyrillic to Latin, any
\* other character as it is. A Cyrillic letter is written "Cyr-V" (capital Ve),
\* "cyr-v", "cyr-i", "cyr-d", "cyr-zh": one character each.
TranslitChar(c) ==
    CASE c = "Cyr-V" -> <<"V">>
      [] c = "cyr-i" -> <<"i">>
      [] c = "cyr-d" -> <<"d">>
      [] c = "cyr-zh" -> <<"z", "h">>
      [] OTHER -> <<c>>

\* str.replace(" ", "_"), one character
ReplaceChar(c) == IF c = " " THEN <<"_">> ELSE <<c>>

\* str.lower(), one character
LowerChar(c) ==
    CASE c = "V" -> <<"v">>
      [] c = "Cyr-V" -> <<"cyr-v">>
      [] OTHER -> <<c>>

RECURSIVE translit(_)
\* translit(s, "ru", reversed=True)
translit(s) == IF s = <<>> THEN <<>> ELSE TranslitChar(Head(s)) \o translit(Tail(s))

RECURSIVE replace(_)
\* s.replace(" ", "_")
replace(s) == IF s = <<>> THEN <<>> ELSE ReplaceChar(Head(s)) \o replace(Tail(s))

RECURSIVE lower(_)
\* s.lower()
lower(s) == IF s = <<>> THEN <<>> ELSE LowerChar(Head(s)) \o lower(Tail(s))

gen_image_key(summit_id, comment) ==
    LET transliterated_comment == lower(replace(translit(comment)))
    IN  summit_id \o <<"_">> \o transliterated_comment

\* f"summits/{image_key}_{i}.jpg"
image_s3_key(image_key, n) ==
    <<"s", "u", "m", "m", "i", "t", "s", "/">> \o image_key \o <<"_">> \o Str(n)
        \o <<".", "j", "p", "g">>

\* f"summits/{image_key}_{i}_preview.jpg"
preview_s3_key(image_key, n) ==
    <<"s", "u", "m", "m", "i", "t", "s", "/">> \o image_key \o <<"_">> \o Str(n)
        \o <<"_", "p", "r", "e", "v", "i", "e", "w", ".", "j", "p", "g">>

-----------------------------------------------------------------------------
(* import_summits *)

IMAGES_SRC_DIR == <<"/home/rush/thousands-backup/images">>

\* Path(dir) / name
PathJoin(dir, name) == dir \o <<"/">> \o name

\* groupby's key: tuple(row[:8])
ParentKey(row) == SubSeq(row, 1, 8)

\* rows grouped by the ridge alone
SameRidge(row) == row[2] = summit[2]

\* groupby keeps a row in the current group while its key equals the group's
SameGroup(row) == ParentKey(row) = summit

\* groupby ends the group at the end of the cursor or at a row with another key
GroupExhausted == IF pos > Len(rows) THEN TRUE ELSE ~SameGroup(rows[pos])

\* DEST_DIR / ridge_id / f"{summit_id}.yaml", below DEST_DIR
SummitFile(ridge_id, summit_id) ==
    PathJoin(ridge_id, summit_id \o <<".", "y", "a", "m", "l">>)

\* a counter that is never advanced
SamePosition(n) == n

\* the counter after a row that has an image: i += 1
NextPosition(n) == n + 1

\* the preview left out of the transfer list
ImageTaskOnly(image_path, image_key_full, preview_path, image_key_preview) ==
    <<<<image_path, image_key_full>>>>

\* the two images_to_upload.append calls of a row
TransferTasks(image_path, image_key_full, preview_path, image_key_preview) ==
    <<<<image_path, image_key_full>>, <<preview_path, image_key_preview>>>>

\* groupby yields the next key and the document is started (lines 105-125);
\* list(None) raises TypeError
NextGroup ==
    /\ sphase = "rows"
    /\ pos <= Len(rows)
    /\ LET key == ParentKey(rows[pos])
       IN  IF key[8] = None
           THEN /\ sphase' = "failed"
                /\ UNCHANGED <<summit, summit_data, i>>
           ELSE /\ summit' = key
                /\ summit_data' = [name |-> key[3], name_alt |-> key[4],
                                   height |-> key[5], description |-> key[6],
                                   interpretation |-> key[7], coordinates |-> key[8],
                                   images |-> <<>>]
                /\ i' = 0
                /\ sphase' = "group"
    /\ UNCHANGED <<rows, pos, images_to_upload, writeLog, docs>>
    /\ UNCHANGED <<upVars, ridVars, mirVars>>

\* one row of the group (lines 126-147); Path / None and translit(None) raise
ImgRow ==
    /\ sphase = "group"
    /\ ~GroupExhausted
    /\ LET summit_id == summit[1]
           image_filename == rows[pos][9]
           preview_filename == rows[pos][10]
           comment == rows[pos][11]
       IN  IF image_filename = None
           THEN /\ pos' = pos + 1
                /\ UNCHANGED <<summit_data, i, images_to_upload, sphase>>
           ELSE IF preview_filename = None \/ comment = None
           THEN /\ sphase' = "failed"
                /\ UNCHANGED <<pos, summit_data, i, images_to_upload>>
           ELSE LET image_path == PathJoin(IMAGES_SRC_DIR, image_filename)
                    preview_path == PathJoin(IMAGES_SRC_DIR, preview_filename)
                    image_key == gen_image_key(summit_id, comment)
                    image_key_full == image_s3_key(image_key, i)
                    image_key_preview == preview_s3_key(image_key, i)
                IN  /\ images_to_upload' =
                            images_to_upload \o
                                TransferTasks(image_path, image_key_full,
                                              preview_path, image_key_preview)
                    /\ summit_data' =
                            [summit_data EXCEPT !.images =
                                Append(@, [url |-> image_key_full,
                                           preview_url |-> image_key_preview,
                                           comment |-> comment])]
                    /\ i' = NextPosition(i)
                    /\ pos' = pos + 1
                    /\ UNCHANGED sphase
    /\ UNCHANGED <<rows, summit, writeLog, docs>>
    /\ UNCHANGED <<upVars, ridVars, mirVars>>

\* summit_file.open("w"): an existing file is truncated and written anew
OpenForWriting(file) == TRUE

\* the group is exhausted: the document is written (lines 148-150); the file
\* cannot be created when its ridge directory does not exist
WriteDoc ==
    /\ sphase = "group"
    /\ GroupExhausted
    /\ LET summit_file == SummitFile(summit[2], summit[1])
       IN  IF summit[2] \in DOMAIN dirs /\ OpenForWriting(summit_file)
           THEN /\ writeLog' = Append(writeLog, <<summit_file, summit_data>>)
                /\ docs' = [f \in DOMAIN docs \cup {summit_file} |->
                                IF f = summit_file THEN summit_data ELSE docs[f]]
                /\ sphase' = "rows"
           ELSE /\ sphase' = "failed"
                /\ UNCHANGED <<writeLog, docs>>
    /\ UNCHANGED <<rows, pos, summit, summit_data, i, images_to_upload>>
    /\ UNCHANGED <<upVars, ridVars, mirVars>>

\* an upload that starts after any group
AfterAnyGroup == TRUE

\* the loop over the groups has ended: no row is left
CursorExhausted == pos > Len(rows)

\* the cursor is exhausted: asyncio.run(upload_images_bulk(s3_session,
\* images_to_upload)) (line 151)
HandOff ==
    /\ sphase = "rows"
    /\ CursorExhausted
    /\ BulkStarts(images_to_upload)
    /\ sphase' = "upload"
    /\ UNCHANGED <<store, store0, flaky, local>>
    /\ UNCHANGED <<rows, pos, summit, summit_data, i, images_to_upload, writeLog, docs>>
    /\ UNCHANGED <<ridVars, mirVars>>

\* asyncio.run returned: import_summits returns and main calls import_users
\* (lines 151, 219-220)
SummitsReturn ==
    /\ sphase = "upload"
    /\ bulk = "returned"
    /\ sphase' = "done"
    /\ mphase' = "users"
    /\ UNCHANGED <<rows, pos, summit, summit_data, i, images_to_upload, writeLog, docs>>
    /\ UNCHANGED <<user_rows, upos, user_images_to_upload, climb_rows, cpos, db, txn,
                   mrun, commits>>
    /\ UNCHANGED <<upVars, ridVars>>

\* asyncio.run raised: the exception leaves import_summits and main (line 151)
SummitsFail ==
    /\ sphase = "upload"
    /\ bulk = "failed"
    /\ sphase' = "failed"
    /\ UNCHANGED <<rows, pos, summit, summit_data, i, images_to_upload, writeLog, docs>>
    /\ UNCHANGED <<upVars, ridVars, mirVars>>

-----------------------------------------------------------------------------
(* import_ridges (lines 81-89) and the hand-over to import_summits in main *)

\* os.mkdir(ridge_dir): FileExistsError when the directory is there
MkdirFails(ridge_id) == ridge_id \in DOMAIN dirs

\* one ridge row: the directory is created and _meta.yaml written into it
RidgeRow ==
    /\ rphase = "rows"
    /\ rpos <= Len(ridge_rows)
    /\ LET row == ridge_rows[rpos]
       IN  IF MkdirFails(row[1])
           THEN /\ rphase' = "failed"
                /\ UNCHANGED <<rpos, dirs>>
           ELSE /\ dirs' = [d \in DOMAIN dirs \cup {row[1]} |->
                                IF d = row[1] THEN [name |-> row[2], color |-> row[3]]
                                ELSE dirs[d]]
                /\ rpos' = rpos + 1
                /\ UNCHANGED rphase
    /\ UNCHANGED ridge_rows
    /\ UNCHANGED <<upVars, sumVars, mirVars>>

\* the ridge cursor is exhausted: import_ridges returns and main calls
\* import_summits (lines 218-219)
RidgesReturn ==
    /\ rphase = "rows"
    /\ rpos > Len(ridge_rows)
    /\ sphase = "off"
    /\ rphase' = "done"
    /\ sphase' = "rows"
    /\ UNCHANGED <<ridge_rows, rpos, dirs>>
    /\ UNCHANGED <<rows, pos, summit, summit_data, i, images_to_upload, writeLog, docs>>
    /\ UNCHANGED <<upVars, mirVars>>

-----------------------------------------------------------------------------
(* import_users (lines 154-185), import_climbs (lines 188-198) and the mirror
   store.  A table is the sequence of its rows in insertion order; db is what
   has been committed, txn what the open connection sees: db plus the inserts
   since the last commit.  A process that ends without commit loses them. *)

\* an insert that overwrites the row of the same id
InsertOrReplace(table, row) ==
    IF \E j \in DOMAIN table : table[j][1] = row[1]
    THEN [j \in DOMAIN table |-> IF table[j][1] = row[1] THEN row ELSE table[j]]
    ELSE Append(table, row)

\* INSERT INTO users ... ON CONFLICT DO NOTHING: id is the primary key
InsertOrIgnore(table, row) ==
    IF \E j \in DOMAIN table : table[j][1] = row[1]
    THEN table
    ELSE Append(table, row)

\* an insert that keeps one copy of a row
InsertDistinct(table, row) ==
    IF \E j \in DOMAIN table : table[j] = row THEN table ELSE Append(table, row)

\* INSERT INTO user_images / climbs: a plain insert
Insert(table, row) == Append(table, row)

\* a connection in autocommit mode: every statement is committed at once
AfterStatementAutocommit(committed, seen) == seen

\* sqlite3.connect with the default isolation level: an INSERT opens a
\* transaction and stays pending until commit(); the committed content after a
\* statement is what it was
AfterStatement(committed, seen) == committed

\* f"users/{user_id}_{size}.jpg"
UserImageKey(user_id, size) ==
    <<"u", "s", "e", "r", "s", "/">> \o Str(user_id) \o <<"_", size>>
        \o <<".", "j", "p", "g">>

\* `if image:` is false for NULL and for the empty string
Truthy(image) == image # None /\ image # <<>>

\* one turn of the loop over (image, "M"), (preview, "S") (lines 174-183):
\* a file that is not there is passed over
UserImage(acc, img, user_id, size) ==
    IF PathJoin(IMAGES_SRC_DIR, img) \notin local
    THEN acc
    ELSE [tasks |-> Append(acc.tasks,
                           <<PathJoin(IMAGES_SRC_DIR, img), UserImageKey(user_id, size)>>),
          images |-> Insert(acc.images, <<user_id, size, UserImageKey(user_id, size)>>)]

\* the process ends with the exception: the connection is closed without a
\* commit and the pending inserts are rolled back
ProcessDies ==
    /\ mphase' = "failed"
    /\ txn' = db

\* one row of the users cursor (lines 165-183); Path / None raises TypeError
UserRow ==
    /\ mphase = "users"
    /\ upos <= Len(user_rows)
    /\ LET row == user_rows[upos]
           user_id == row[1]
           image == row[5]
           preview == row[6]
           users1 == InsertOrIgnore(txn.users, <<user_id, row[2], row[3], row[4]>>)
           acc0 == [tasks |-> user_images_to_upload, images |-> txn.user_images]
           acc1 == UserImage(acc0, image, user_id, "M")
       IN  IF ~Truthy(image)
           THEN /\ txn' = [txn EXCEPT !.users = users1]
                /\ upos' = upos + 1
                /\ UNCHANGED <<user_images_to_upload, mphase>>
           ELSE IF preview = None
           THEN /\ ProcessDies
                /\ user_images_to_upload' = acc1.tasks
                /\ UNCHANGED upos
           ELSE LET acc2 == UserImage(acc1, preview, user_id, "S")
                IN  /\ txn' = [txn EXCEPT !.users = users1, !.user_images = acc2.images]
                    /\ user_images_to_upload' = acc2.tasks
                    /\ upos' = upos + 1
                    /\ UNCHANGED mphase
    /\ db' = AfterStatement(db, txn')
    /\ UNCHANGED <<user_rows, climb_rows, cpos, mrun, commits>>
    /\ UNCHANGED <<upVars, sumVars, ridVars>>

\* `for row in cur` raises (the source connection fails) while a family reads
\* its rows (lines 165, 191)
CursorFails ==
    /\ mphase \in {"users", "climbs"}
    /\ ProcessDies
    /\ UNCHANGED <<user_rows, upos, user_images_to_upload, climb_rows, cpos, db, mrun,
                   commits>>
    /\ UNCHANGED <<upVars, sumVars, ridVars>>

\* the users cursor is exhausted: asyncio.run(upload_images_bulk(s3_session,
\* images_to_upload)) (line 184)
UsersHandOff ==
    /\ mphase = "users"
    /\ upos > Len(user_rows)
    /\ BulkStarts(user_images_to_upload)
    /\ mphase' = "upload"
    /\ UNCHANGED <<store, store0, flaky, local>>
    /\ UNCHANGED <<user_rows, upos, user_images_to_upload, climb_rows, cpos, db, txn,
                   mrun, commits>>
    /\ UNCHANGED <<sumVars, ridVars>>

\* an asyncio.run whose exception is swallowed
RunOver == bulk \in {"returned", "failed"}

\* asyncio.run(upload_images_bulk(...)) returned: no exception
RunReturned == bulk = "returned"

\* the upload returned: sqlite_conn.commit() (line 185), import_users returns
\* and main calls import_climbs (line 221)
UsersCommit ==
    /\ mphase = "upload"
    /\ RunReturned
    /\ db' = txn
    /\ commits' = [commits EXCEPT !.users = @ + 1]
    /\ mphase' = "climbs"
    /\ UNCHANGED <<user_rows, upos, user_images_to_upload, climb_rows, cpos, txn, mrun>>
    /\ UNCHANGED <<upVars, sumVars, ridVars>>

\* the upload raised: the exception leaves import_users and main
UsersFail ==
    /\ mphase = "upload"
    /\ bulk = "failed"
    /\ ProcessDies
    /\ UNCHANGED <<user_rows, upos, user_images_to_upload, climb_rows, cpos, db, mrun,
                   commits>>
    /\ UNCHANGED <<upVars, sumVars, ridVars>>

\* one row of the climbs cursor (lines 191-197)
ClimbRow ==
    /\ mphase = "climbs"
    /\ cpos <= Len(climb_rows)
    /\ txn' = [txn EXCEPT !.climbs = Insert(@, climb_rows[cpos])]
    /\ cpos' = cpos + 1
    /\ db' = AfterStatement(db, txn')
    /\ UNCHANGED <<user_rows, upos, user_images_to_upload, climb_rows, mphase, mrun,
                   commits>>
    /\ UNCHANGED <<upVars, sumVars, ridVars>>

\* the climbs cursor is exhausted: sqlite_conn.commit() (line 198) and main ends
ClimbsCommit ==
    /\ mphase = "climbs"
    /\ cpos > Len(climb_rows)
    /\ db' = txn
    /\ commits' = [commits EXCEPT !.climbs = @ + 1]
    /\ mphase' = "done"
    /\ UNCHANGED <<user_rows, upos, user_images_to_upload, climb_rows, cpos, txn, mrun>>
    /\ UNCHANGED <<upVars, sumVars, ridVars>>

\* main is run again on the same source and mirror store, and reaches
\* import_users (line 220) with a new connection
MainAgain ==
    /\ mphase \in {"done", "failed"}
    /\ mrun < MaxRuns
    /\ mrun' = mrun + 1
    /\ txn' = db
    /\ upos' = 1
    /\ cpos' = 1
    /\ user_images_to_upload' = <<>>
    /\ mphase' = "users"
    /\ UNCHANGED <<user_rows, climb_rows, db, commits>>
    /\ UNCHANGED <<upVars, sumVars, ridVars>>

-----------------------------------------------------------------------------
(* Inputs of the uploader specifications *)

K1 == <<"k", "1">>
K2 == <<"k", "2">>

BulkKeys == {K1, K2}

\* two local files for one key, one for another
TaskPool == {<<<<"p", "1">>, K1>>, <<<<"p", "2">>, K1>>, <<<<"p", "3">>, K2>>}

TaskLists == UNION {[1..n -> TaskPool] : n \in 1..MaxTasks}

\* SemLimit + ExtraTasks tasks. The first task and those beyond the limit go to a
\* key the bucket does not hold and on which the remote can fail; the others go to
\* a key it holds
SemTasks == [t \in 1..(SemLimit + ExtraTasks) |->
                <<<<"p">> \o Str(t), IF t = 1 \/ t > SemLimit THEN K2 ELSE K1>>]

SummitsIdle ==
    /\ rows = <<>>
    /\ pos = 1
    /\ summit = None
    /\ summit_data = None
    /\ i = 0
    /\ images_to_upload = <<>>
    /\ writeLog = <<>>
    /\ docs = <<>>
    /\ sphase = "off"

RidgesIdle ==
    /\ ridge_rows = <<>>
    /\ rpos = 1
    /\ dirs = <<>>
    /\ rphase = "off"

MirrorIdle ==
    /\ user_rows = <<>>
    /\ upos = 1
    /\ user_images_to_upload = <<>>
    /\ climb_rows = <<>>
    /\ cpos = 1
    /\ db = [users |-> <<>>, user_images |-> <<>>, climbs |-> <<>>]
    /\ txn = [users |-> <<>>, user_images |-> <<>>, climbs |-> <<>>]
    /\ mphase = "off"
    /\ mrun = 1
    /\ commits = [users |-> 0, climbs |-> 0]

InitUploader(list, bucket, failing) ==
    /\ tasks = list
    /\ store = bucket
    /\ store0 = bucket
    /\ sem = SemLimit
    /\ st = [t \in DOMAIN list |-> "created"]
    /\ probeRes = [t \in DOMAIN list |-> "none"]
    /\ puts = [t \in DOMAIN list |-> <<>>]
    /\ putLog = [k \in KeysOf(list) |-> 0]
    /\ bulk = "running"
    /\ run = 1
    /\ flaky = failing
    /\ local = {list[t][1] : t \in DOMAIN list}

InitBulk ==
    /\ \E list \in TaskLists, bucket \in SUBSET BulkKeys :
            InitUploader(list, bucket, BulkKeys)
    /\ SummitsIdle
    /\ RidgesIdle
    /\ MirrorIdle

NextBulk ==
    \/ \E t \in Tasks : SemAcquire(t)
    \/ \E t \in Tasks : ProbeReturns(t)
    \/ \E t \in Tasks : UploadReturns(t)
    \/ GatherReturns
    \/ CancelAll
    \/ Rerun

SpecBulk == InitBulk /\ [][NextBulk]_vars

InitSem ==
    /\ InitUploader(SemTasks, {K1}, {K2})
    /\ SummitsIdle
    /\ RidgesIdle
    /\ MirrorIdle

NextSem ==
    \/ \E t \in Tasks : SemAcquire(t)
    \/ \E t \in Tasks : ProbeReturns(t)
    \/ \E t \in Tasks : UploadReturns(t)
    \/ GatherReturns
    \/ CancelAll

SpecSem == InitSem /\ [][NextSem]_vars

\* SemLimit + ExtraTasks tasks of which the first and the last go to the key the
\* bucket does not hold and on which the remote can fail
FairTasks == [t \in 1..(SemLimit + ExtraTasks) |->
                <<<<"p">> \o Str(t),
                  IF t = 1 \/ t = SemLimit + ExtraTasks THEN K2 ELSE K1>>]

InitSemFair ==
    /\ InitUploader(FairTasks, {K1}, {K2})
    /\ SummitsIdle
    /\ RidgesIdle
    /\ MirrorIdle

\* some started probe and some started upload returns as long as one is out,
\* and the event loop runs a task that can run: weaker than asking it of every
\* call and every task
FairSem ==
    /\ WF_vars(\E t \in Tasks : SemAcquire(t))
    /\ WF_vars(\E t \in Tasks : ProbeReturns(t))
    /\ WF_vars(\E t \in Tasks : UploadReturns(t))
    /\ WF_vars(GatherReturns)
    /\ WF_vars(CancelAll)

SpecSemFair == InitSemFair /\ [][NextSem]_vars /\ FairSem

-----------------------------------------------------------------------------
(* Inputs of the summit specification *)

R1 == <<"r", "1">>
R2 == <<"r", "2">>

\* the summits table, ordered by id: (id, ridge_id, name, name_alt, height,
\* description, interpretation, coordinates)
SummitTable ==
    << <<<<"a">>, R1, "Peak", "Pik", 4000, "d1", "i1", <<451235, 76789>>>>,
       <<<<"a", "_", "b">>, R1, "Peak", "Pik", 4000, "d1", "i1", <<451235, 76789>>>>,
       <<<<"b">>, R2, "Top", "Pik", 3000, "d2", "i2", <<10000, 20000>>>> >>

Comments == {<<"Cyr-V", "cyr-i", "cyr-d">>, <<"v", "i", "d">>, <<"b", " ", "c">>, <<"c">>}

\* (image, preview, comment) of a joined row: no image row, an image row without
\* image filename, a full image row
ImgParts ==
    {<<None, None, None>>, <<None, <<"a_p.jpg">>, <<"c">>>>}
        \cup {<<<<"a.jpg">>, <<"a_p.jpg">>, c>> : c \in Comments}

\* the streams the query can give: ordered by summit id, so that the rows of one
\* summit are contiguous
RowStreams ==
    LET Choices == (1..Len(SummitTable)) \X ImgParts
        Sorted(f) == \A j \in 1..(Len(f) - 1) : f[j][1] <= f[j + 1][1]
    IN  {[j \in DOMAIN f |-> SummitTable[f[j][1]] \o f[j][2]] :
            f \in {g \in UNION {[1..n -> Choices] : n \in 1..MaxRows} : Sorted(g)}}

\* before the first asyncio.run: a bucket, the keys the service can fail on and
\* the local image files
UploaderOff(bucket, failing, files) ==
    /\ tasks = <<>>
    /\ store = bucket
    /\ store0 = bucket
    /\ sem = SemLimit
    /\ st = <<>>
    /\ probeRes = <<>>
    /\ puts = <<>>
    /\ putLog = <<>>
    /\ bulk = "idle"
    /\ run = 0
    /\ flaky = failing
    /\ local = files

UploaderIdle == UploaderOff({}, {}, {})

\* import_ridges has returned: one directory per ridge
RidgesDone(list) ==
    /\ ridge_rows = list
    /\ rpos = Len(list) + 1
    /\ dirs = [d \in {list[j][1] : j \in DOMAIN list} |->
                    LET j == CHOOSE k \in DOMAIN list : list[k][1] = d
                    IN  [name |-> list[j][2], color |-> list[j][3]]]
    /\ rphase = "done"

RidgeTable == <<<<R1, "Main", "red">>, <<R2, "East", "blue">>>>

InitImport(stream) ==
    /\ rows = stream
    /\ pos = 1
    /\ summit = None
    /\ summit_data = None
    /\ i = 0
    /\ images_to_upload = <<>>
    /\ writeLog = <<>>
    /\ docs = <<>>
    /\ sphase = "rows"

InitSummits ==
    /\ \E stream \in RowStreams : InitImport(stream)
    /\ UploaderIdle
    /\ RidgesDone(RidgeTable)
    /\ MirrorIdle

NextSummits ==
    \/ NextGroup
    \/ ImgRow
    \/ WriteDoc
    \/ HandOff

SpecSummits == InitSummits /\ [][NextSummits]_vars

-----------------------------------------------------------------------------
(* Inputs of the mirror specification: main from import_users on, run up to
   MaxRuns times on one source and one mirror store *)

\* import_summits has returned
SummitsDone ==
    /\ rows = <<>>
    /\ pos = 1
    /\ summit = None
    /\ summit_data = None
    /\ i = 0
    /\ images_to_upload = <<>>
    /\ writeLog = <<>>
    /\ docs = <<>>
    /\ sphase = "done"

\* users rows <<id, oauth_id, src, name, image, preview>>: a user with both
\* images, a second row of the same id with other values and no image, a user
\* whose preview is NULL
UserPool ==
    {<<1, "o1", 1, "Ann", <<"u1.jpg">>, <<"u1_p.jpg">>>>,
     <<1, "o9", 2, "Bob", None, None>>,
     <<2, "o2", 1, "Cy", <<"u2.jpg">>, None>>}

\* the cursor gives rows of the users table, each once, in any order
UserStreams ==
    {us \in UNION {[1..n -> UserPool] : n \in 1..MaxUsers} :
        \A j, k \in DOMAIN us : us[j] = us[k] => j = k}

\* climbs rows <<user_id, summit_id, comment, year, month, day>>
ClimbStreams ==
    {<<<<1, <<"a">>, "c1", 2020, 7, 1>>>>,
     <<<<1, <<"a">>, "c1", 2020, 7, 1>>, <<1, <<"a">>, "c1", 2020, 7, 1>>>>}

UserFiles ==
    {PathJoin(IMAGES_SRC_DIR, <<"u1.jpg">>), PathJoin(IMAGES_SRC_DIR, <<"u1_p.jpg">>)}

InitMirror ==
    /\ \E files \in SUBSET UserFiles :
            UploaderOff({}, {UserImageKey(1, "S")},
                        files \cup {PathJoin(IMAGES_SRC_DIR, <<"u2.jpg">>)})
    /\ SummitsDone
    /\ RidgesDone(RidgeTable)
    /\ \E us \in UserStreams : user_rows = us
    /\ \E cs \in ClimbStreams : climb_rows = cs
    /\ upos = 1
    /\ user_images_to_upload = <<>>
    /\ cpos = 1
    /\ db = [users |-> <<>>, user_images |-> <<>>, climbs |-> <<>>]
    /\ txn = [users |-> <<>>, user_images |-> <<>>, climbs |-> <<>>]
    /\ mphase = "users"
    /\ mrun = 1
    /\ commits = [users |-> 0, climbs |-> 0]

NextMirror ==
    \/ UserRow
    \/ CursorFails
    \/ UsersHandOff
    \/ \E t \in Tasks : SemAcquire(t)
    \/ \E t \in Tasks : ProbeReturns(t)
    \/ \E t \in Tasks : UploadReturns(t)
    \/ GatherReturns
    \/ CancelAll
    \/ UsersCommit
    \/ UsersFail
    \/ ClimbRow
    \/ ClimbsCommit
    \/ MainAgain

SpecMirror == InitMirror /\ [][NextMirror]_vars

-----------------------------------------------------------------------------
(* Inputs of the export specification: import_ridges and import_summits on a
   clean destination, over tables that hold NULLs and repeated ids *)

\* round(c, 4) of a coordinate given in units of 10^-5, in units of 10^-4: the
\* nearest value (a tie falls as the binary float does; the tables have none)
Round4(c) == (c + 5) \div 10

\* the type caster of POINT columns (lines 27-35): NULL gives None
cast_point(value) ==
    IF value = None THEN None ELSE <<Round4(value[1]), Round4(value[2])>>

\* a row as the cursor gives it: the coordinates column is cast
Fetch(row) == [row EXCEPT ![8] = cast_point(@)]

\* the ridges cursor: each ridge once, a ridge id twice, a ridge missing
RidgeStreams ==
    {RidgeTable,
     <<<<R1, "Main", "red">>, <<R2, "East", "blue">>, <<R1, "Main2", "green">>>>,
     <<<<R1, "Main", "red">>>>}

\* summits as stored: "a", a second summit of id "a" in the same ridge with
\* another name, and "c" without coordinates
SummitRaw ==
    << <<<<"a">>, R1, "Peak", "Pik", 4000, "d1", "i1", <<4512346, 767890>>>>,
       <<<<"a">>, R1, "Twin", "Pik", 4000, "d1", "i1", <<4512346, 767890>>>>,
       <<<<"c">>, R2, "Top", "Pik", 3000, "d2", "i2", None>> >>

\* (image, preview, comment): no image row, a row with the preview only, a row
\* with the image only, a full row
ExportParts ==
    {<<None, None, None>>,
     <<None, <<"a_p.jpg">>, <<"c">>>>,
     <<<<"a.jpg">>, None, <<"c">>>>,
     <<<<"a.jpg">>, <<"a_p.jpg">>, <<"c">>>>}

\* the streams the query can give: ordered by summit id; rows of equal id come
\* in the order of main and image, whatever summit they belong to
ExportStreams ==
    LET Choices == (1..Len(SummitRaw)) \X ExportParts
        Sorted(f) ==
            \A j \in 1..(Len(f) - 1) :
                SummitRaw[f[j][1]][1] = SummitRaw[f[j + 1][1]][1] \/ f[j][1] < f[j + 1][1]
    IN  {[j \in DOMAIN f |-> Fetch(SummitRaw[f[j][1]]) \o f[j][2]] :
            f \in {g \in UNION {[1..n -> Choices] : n \in 1..MaxRows} : Sorted(g)}}

InitExport ==
    /\ \E list \in RidgeStreams : ridge_rows = list
    /\ rpos = 1
    /\ dirs = <<>>
    /\ rphase = "rows"
    /\ \E stream \in ExportStreams : rows = stream
    /\ pos = 1
    /\ summit = None
    /\ summit_data = None
    /\ i = 0
    /\ images_to_upload = <<>>
    /\ writeLog = <<>>
    /\ docs = <<>>
    /\ sphase = "off"
    /\ UploaderIdle
    /\ MirrorIdle

NextExport ==
    \/ RidgeRow
    \/ RidgesReturn
    \/ NextGroup
    \/ ImgRow
    \/ WriteDoc
    \/ HandOff

SpecExport == InitExport /\ [][NextExport]_vars

-----------------------------------------------------------------------------
(* Inputs of the pipeline specification: import_summits from its first row to
   the end of its upload *)

\* rows of summits "a" and "b", without image or with the image of comment "c"
PipeStreams ==
    LET Choices == {1, 3} \X {<<None, None, None>>, <<<<"a.jpg">>, <<"a_p.jpg">>, <<"c">>>>}
        Sorted(f) == \A j \in 1..(Len(f) - 1) : f[j][1] <= f[j + 1][1]
    IN  {[j \in DOMAIN f |-> SummitTable[f[j][1]] \o f[j][2]] :
            f \in {g \in UNION {[1..n -> Choices] : n \in 1..MaxPipeRows} : Sorted(g)}}

\* the local image files of those rows
SummitFiles ==
    {PathJoin(IMAGES_SRC_DIR, <<"a.jpg">>), PathJoin(IMAGES_SRC_DIR, <<"a_p.jpg">>)}

\* the key of summit "a"'s first image, in the bucket from an earlier run or not
KA0 == image_s3_key(gen_image_key(<<"a">>, <<"c">>), 0)

InitPipeline ==
    /\ \E stream \in PipeStreams : InitImport(stream)
    /\ \E bucket \in SUBSET {KA0}, files \in SUBSET SummitFiles :
            UploaderOff(bucket, {KA0}, files)
    /\ RidgesDone(RidgeTable)
    /\ MirrorIdle

NextPipeline ==
    \/ NextGroup
    \/ ImgRow
    \/ WriteDoc
    \/ HandOff
    \/ \E t \in Tasks : SemAcquire(t)
    \/ \E t \in Tasks : ProbeReturns(t)
    \/ \E t \in Tasks : UploadReturns(t)
    \/ GatherReturns
    \/ CancelAll
    \/ SummitsReturn
    \/ SummitsFail

SpecPipeline == InitPipeline /\ [][NextPipeline]_vars

-----------------------------------------------------------------------------
(* The bulk uploader's properties *)

\* C1: during one call of upload_images_bulk at most SemLimit (10) tasks are
\* inside upload_image at the same time, for a list longer than the limit and
\* every order in which probes and uploads return; a task beyond the tenth is
\* inside upload_image only after some task has finished.
BoundedConcurrency ==
    /\ Cardinality(InFlight) <= SemLimit
    /\ \A t \in InFlight :
        t > SemLimit => \E u \in Tasks : st[u] \in {"ok", "skip", "err"}

\* the limit is reached with a task beyond the tenth among the running ones
BoundedConcurrencyWitness ==
    /\ Cardinality(InFlight) = SemLimit
    /\ \E t \in InFlight : t > SemLimit

\* C2: a task issues a put exactly when its probe reported not-found; after
\* "exists" it ends as success with no put, after not-found it has issued exactly
\* one put, of its own local path to its own key.
PutIffNotFound ==
    \A t \in Tasks :
        /\ puts[t] # <<>> <=> probeRes[t] = "notfound"
        /\ probeRes[t] = "exists" => st[t] = "skip" /\ puts[t] = <<>>
        /\ probeRes[t] = "notfound" => puts[t] = <<<<tasks[t][1], tasks[t][2]>>>>

\* one call in which a task was skipped and another one uploaded
PutIffNotFoundWitness ==
    \E t, u \in Tasks :
        /\ probeRes[t] = "exists" /\ st[t] = "skip"
        /\ probeRes[u] = "notfound" /\ st[u] = "ok" /\ KeyOf(u) \in store

\* C3: a task whose probe failed with another error than not-found issues no put,
\* ends in error, and the call of upload_images_bulk fails: it is raising or has
\* raised in its caller, and never returns normally.
ProbeErrorPropagates ==
    \A t \in Tasks :
        probeRes[t] = "error" =>
            /\ puts[t] = <<>>
            /\ st[t] = "err"
            /\ bulk \in {"raising", "failed"}

\* a probe failed and the caller has got the exception
ProbeErrorPropagatesWitness ==
    /\ bulk = "failed"
    /\ \E t \in Tasks : probeRes[t] = "error" /\ KeyOf(t) \notin store

\* C4: when control is back in the caller of the uploader, after a normal return
\* or a failure, every task has ended as success, skip or error.
BarrierAllResolved ==
    bulk \in {"returned", "failed"} =>
        \A t \in Tasks : st[t] \in {"ok", "skip", "err"}

\* C5: when a task has failed, no sibling is cancelled or left unstarted: each
\* of the others ends as success or skip (or fails on its own).
NoSiblingCancelled ==
    (\E t \in Tasks : st[t] = "err") =>
        \A u \in Tasks : st[u] # "cancelled"

\* C6: from a bucket that held none of the list's keys and with nothing failing,
\* two calls in sequence on the same list issue exactly one put per key together,
\* and in the second call every probe reports exists and no put is issued.
UploadIdempotent ==
    (run = 2 /\ bulk = "returned" /\ store0 \cap KeysOf(tasks) = {}) =>
        /\ \A k \in KeysOf(tasks) : putLog[k] = 1
        /\ \A t \in Tasks : probeRes[t] = "exists" /\ puts[t] = <<>>

-----------------------------------------------------------------------------
(* import_summits' properties *)

RECURSIVE ImageFields(_)
\* the url and preview_url fields of a document's images, in order
ImageFields(images) ==
    IF images = <<>> THEN <<>>
    ELSE <<Head(images).url, Head(images).preview_url>> \o ImageFields(Tail(images))

RECURSIVE FieldsOfWrites(_)
FieldsOfWrites(log) ==
    IF log = <<>> THEN <<>>
    ELSE ImageFields(Head(log)[2].images) \o FieldsOfWrites(Tail(log))

\* the fields of every document written, in the order of writing
DocFields == FieldsOfWrites(writeLog)

TaskKeys == [j \in DOMAIN tasks |-> tasks[j][2]]

DistinctKeys == {ParentKey(rows[j]) : j \in DOMAIN rows}

\* the rows of parent key k that have an image filename, in row order
ImageRows(k) == SelectSeq(rows, LAMBDA r : ParentKey(r) = k /\ r[9] # None)

\* the rows that have an image filename, in row order
AllImageRows == SelectSeq(rows, LAMBDA r : r[9] # None)

\* the writes of parent key k's document
WritesOf(k) == {w \in DOMAIN writeLog : writeLog[w][1] = SummitFile(k[2], k[1])}

GroupingCorrect ==
    sphase = "upload" =>
        /\ Len(writeLog) = Cardinality(DistinctKeys)
        /\ \A k \in DistinctKeys :
            /\ Cardinality(WritesOf(k)) = 1
            /\ \A w \in WritesOf(k) :
                LET doc == writeLog[w][2]
                IN  /\ doc.name = k[3] /\ doc.name_alt = k[4] /\ doc.height = k[5]
                    /\ doc.description = k[6] /\ doc.interpretation = k[7]
                    /\ doc.coordinates = k[8]
                    /\ Len(doc.images) = Len(ImageRows(k))
                    /\ \A n \in DOMAIN doc.images :
                        doc.images[n].comment = ImageRows(k)[n][11]
                    /\ docs[writeLog[w][1]] = doc

\* two summits, the first with two rows of which one has no image filename
GroupingCorrectWitness ==
    /\ sphase = "upload"
    /\ Len(rows) = 3
    /\ ParentKey(rows[1]) = ParentKey(rows[2])
    /\ ParentKey(rows[2]) # ParentKey(rows[3])
    /\ rows[1][9] = None /\ rows[2][9] # None /\ rows[3][9] # None
    /\ Len(writeLog) = 2
    /\ Len(writeLog[1][2].images) = 1

\* C9: in every document the n-th image entry, counted from 0 and without gap
\* over the rows that have an image filename, has the keys
\* summits/<key>_<n>.jpg and summits/<key>_<n>_preview.jpg, and the family's list
\* holds these two tasks per image entry, the image file first: twice as many
\* tasks as image entries.
PositionsNumbered ==
    sphase = "upload" =>
        /\ \A k \in DistinctKeys : \A w \in WritesOf(k) :
            LET images == writeLog[w][2].images
            IN  /\ Len(images) = Len(ImageRows(k))
                /\ \A n \in DOMAIN images :
                    LET image_key == gen_image_key(k[1], ImageRows(k)[n][11])
                    IN  /\ images[n].url = image_s3_key(image_key, n - 1)
                        /\ images[n].preview_url = preview_s3_key(image_key, n - 1)
        /\ Len(tasks) = 2 * Len(AllImageRows)
        /\ \A m \in DOMAIN AllImageRows :
            /\ tasks[2 * m - 1][1] = PathJoin(IMAGES_SRC_DIR, AllImageRows[m][9])
            /\ tasks[2 * m][1] = PathJoin(IMAGES_SRC_DIR, AllImageRows[m][10])
            /\ tasks[2 * m - 1][2] = DocFields[2 * m - 1]
            /\ tasks[2 * m][2] = DocFields[2 * m]

\* one summit: an image row, a row without image filename, an image row; then a
\* second document would restart at 0
PositionsNumberedWitness ==
    /\ sphase = "upload"
    /\ Len(rows) = 3
    /\ rows[1][9] # None /\ rows[2][9] = None /\ rows[3][9] # None
    /\ Len(writeLog) = 1
    /\ Len(writeLog[1][2].images) = 2
    /\ Len(tasks) = 4

\* C10: the destination keys of the summit family's transfer list are pairwise
\* distinct.
KeysDistinct ==
    \A a, b \in DOMAIN images_to_upload :
        a # b => images_to_upload[a][2] # images_to_upload[b][2]

-----------------------------------------------------------------------------
(* The mirror store's properties *)

\* the rows of `table` with this id
RowsOfId(table, id) == {j \in DOMAIN table : table[j][1] = id}

\* the values of the first users row of this id that some run committed are the
\* values of the first source row of this id: every run reads the same source
FirstSourceRow(id) ==
    LET j == CHOOSE k \in DOMAIN user_rows :
                 /\ user_rows[k][1] = id
                 /\ \A m \in 1..(k - 1) : user_rows[m][1] # id
    IN  SubSeq(user_rows[j], 1, 4)

\* C11: first write wins for users.  An insert of a users row whose id is
\* already in the mirror store leaves the row there as it is and adds no second
\* row; in every run and after every commit the table holds at most one row per
\* id, and that row carries the values of the first insert of the id; a row
\* that has been committed is never changed or removed by a later run.
FirstWriteWins ==
    [][/\ \A t \in {db.users, txn.users} : \A j, k \in DOMAIN t :
              t[j][1] = t[k][1] => j = k
       /\ \A j \in DOMAIN txn.users : txn.users[j] = FirstSourceRow(txn.users[j][1])
       /\ \A j \in DOMAIN db.users :
              j \in DOMAIN db'.users /\ db'.users[j] = db.users[j]
       /\ (mphase = "users" /\ upos' = upos + 1) =>
              LET id == user_rows[upos][1]
              IN  /\ \A j \in DOMAIN txn.users :
                         j \in DOMAIN txn'.users /\ txn'.users[j] = txn.users[j]
                  /\ RowsOfId(txn.users, id) # {} => txn'.users = txn.users
                  /\ Cardinality(RowsOfId(txn'.users, id)) = 1]_vars

\* a second run has met the committed row of user 1 with a source row of other
\* values, and committed
FirstWriteWinsWitness ==
    /\ mrun = 2
    /\ commits.users = 2
    /\ Len(user_rows) = 2
    /\ user_rows[1][4] = "Bob"
    /\ user_rows[2][4] = "Ann"
    /\ db.users = <<<<1, "o9", 2, "Bob">>>>

\* how many rows of `table` equal `row`
Copies(table, row) == Cardinality({j \in DOMAIN table : table[j] = row})

\* `old` is the beginning of `new`
IsPrefix(old, new) == Len(old) <= Len(new) /\ SubSeq(new, 1, Len(old)) = old

\* C12: association rows are append-only.  No step removes or changes a
\* committed climbs or user_images row; the commit of import_climbs adds exactly
\* the source rows, one mirror row per source row, equal rows included; the
\* commit of import_users adds one user_images row per enqueued user image, with
\* the image's key; after k committed runs every climbs row is there k times as
\* often as in the source.
AssociationsAppendOnly ==
    [][/\ IsPrefix(db.climbs, db'.climbs)
       /\ IsPrefix(db.user_images, db'.user_images)
       /\ commits'.climbs = commits.climbs + 1 =>
              db'.climbs = db.climbs \o climb_rows
       /\ commits'.users = commits.users + 1 =>
              /\ db'.climbs = db.climbs
              /\ Len(db'.user_images) =
                     Len(db.user_images) + Len(user_images_to_upload)
              /\ \A t \in DOMAIN user_images_to_upload :
                     db'.user_images[Len(db.user_images) + t][3] =
                         user_images_to_upload[t][2]
       /\ commits'.users = commits.users /\ commits'.climbs = commits.climbs =>
              db' = db
       /\ \A j \in DOMAIN climb_rows :
              Copies(db'.climbs, climb_rows[j]) =
                  commits'.climbs * Copies(climb_rows, climb_rows[j])]_vars

\* two committed runs on a source with two equal climbs rows and a user with
\* both images: four copies of the climbs row, two of each user_images row
AssociationsAppendOnlyWitness ==
    /\ commits.climbs = 2
    /\ Len(climb_rows) = 2
    /\ Len(db.climbs) = 4
    /\ Copies(db.user_images, <<1, "M", UserImageKey(1, "M")>>) = 2
    /\ Copies(db.user_images, <<1, "S", UserImageKey(1, "S")>>) = 2

\* C13: mirror writes are atomic per family.  The committed content of the
\* mirror store changes only in the commit at the end of import_users (after the
\* upload returned) and in the commit at the end of import_climbs (after the last
\* row), and then becomes what the connection saw; a family that fails while
\* reading its rows or, for users, during the image upload commits none of its
\* inserts and its pending inserts are gone; so the committed climbs are whole
\* runs of the source, never a part of one.
MirrorAtomicPerFamily ==
    [][/\ db' # db =>
              /\ db' = txn
              /\ \/ /\ mphase = "upload" /\ bulk = "returned" /\ mphase' = "climbs"
                    /\ commits' = [commits EXCEPT !.users = @ + 1]
                 \/ /\ mphase = "climbs" /\ cpos > Len(climb_rows) /\ mphase' = "done"
                    /\ commits' = [commits EXCEPT !.climbs = @ + 1]
       /\ commits' # commits => db' = txn
       /\ mphase' = "failed" => db' = db /\ txn' = db /\ commits' = commits
       /\ Len(db'.climbs) = commits'.climbs * Len(climb_rows)
       /\ mphase' \in {"upload", "climbs", "done"} =>
              Len(db'.user_images) = commits'.users * Len(user_images_to_upload')]_vars

\* a second run failed in the users family with inserts pending: the store holds
\* the first run's commits and nothing of the second
MirrorAtomicPerFamilyWitness ==
    /\ mrun = 2
    /\ mphase = "failed"
    /\ commits = [users |-> 1, climbs |-> 1]
    /\ user_images_to_upload # <<>>
    /\ bulk = "failed"
    /\ run = 2
    /\ Len(db.climbs) = Len(climb_rows)
    /\ Len(db.user_images) = Len(user_images_to_upload)
    /\ txn = db

\* C19: commit after upload in import_users.  The users and user_images rows of
\* a run are committed only in a step taken after the bulk upload of that run's
\* list returned with every task uploaded or already present; when a user image
\* transfer fails the run ends without committing anything and without starting
\* import_climbs; every committed user_images row names a key that is in the
\* bucket.
CommitAfterUpload ==
    [][/\ commits'.users # commits.users =>
              /\ mphase = "upload"
              /\ bulk = "returned"
              /\ tasks = user_images_to_upload
              /\ \A t \in Tasks : st[t] \in {"ok", "skip"}
       /\ mphase' = "climbs" => commits'.users # commits.users \/ mphase = "climbs"
       /\ (mphase = "upload" /\ bulk \in {"raising", "failed"}) =>
              /\ db' = db
              /\ commits' = commits
              /\ mphase' \in {"upload", "failed"}
              /\ txn'.climbs = db.climbs
       /\ \A j \in DOMAIN db'.user_images : db'.user_images[j][3] \in store']_vars

\* a run whose upload stored the medium image and found nothing else to do has
\* committed its rows
CommitAfterUploadWitness ==
    /\ commits.users = 1
    /\ mphase = "climbs"
    /\ bulk = "returned"
    /\ \E t \in Tasks : st[t] = "ok" /\ KeyOf(t) = UserImageKey(1, "M")
    /\ \E j \in DOMAIN db.user_images : db.user_images[j][3] = UserImageKey(1, "M")
    /\ db.users # <<>>

-----------------------------------------------------------------------------
(* The pipeline's properties *)

\* the summits of the stream, as groupby gives them
GroupsOf(stream) == {ParentKey(stream[j]) : j \in DOMAIN stream}

\* a transfer task of the family has been started (first probe sent) or more
TransferBegun == \E t \in Tasks : st[t] # "created"

\* C14: documents before transfers.  From the first probe of any transfer task
\* of import_summits on, the document of every summit of the stream is written,
\* and no document is written or changed afterwards: all writes come before all
\* probes and uploads of the family.
DocumentsBeforeTransfers ==
    [][/\ TransferBegun =>
              /\ sphase \in {"upload", "done", "failed"}
              /\ \A k \in GroupsOf(rows) : SummitFile(k[2], k[1]) \in DOMAIN docs
              /\ Len(writeLog) = Cardinality(GroupsOf(rows))
              /\ docs' = docs /\ writeLog' = writeLog
       /\ writeLog' # writeLog => tasks = <<>> /\ bulk = "idle" /\ puts = <<>>]_vars

\* two summits with images: both documents are there while the first upload is
\* in progress and nothing has been stored yet
DocumentsBeforeTransfersWitness ==
    /\ Len(writeLog) = 2
    /\ Len(tasks) = 4
    /\ \E t \in Tasks : st[t] = "uploading"
    /\ store = store0
    /\ \A t \in Tasks : st[t] \notin {"ok", "skip", "err"}

\* C15: a missing local asset is skipped per asset, not fatal.  A transfer task
\* recorded by import_summits or import_users whose source file does not exist
\* does not end in an error when the remote service itself works (its probe
\* answered not-found or exists), and the family is not failed by it.
MissingAssetSkipped ==
    \A t \in Tasks :
        (PathOf(t) \notin local /\ probeRes[t] \in {"exists", "notfound"}) =>
            /\ st[t] # "err"
            /\ (\A u \in Tasks \ {t} : st[u] # "err") => bulk \notin {"raising", "failed"}

-----------------------------------------------------------------------------
(* The export's error policy *)

\* exactly one of image filename and preview filename is NULL
HalfFilled(row) == (row[9] = None) # (row[10] = None)

\* the row at the cursor belongs to the group in progress: a failure now is the
\* failure of this row's turn of the loop
RowInTurn == pos <= Len(rows) /\ summit # None /\ summit = ParentKey(rows[pos])

\* C16: half-filled image rows are skipped, not errors.  The turn of the loop
\* for a row with a NULL image filename and a preview, or with an image
\* filename and a NULL preview, does not make import_summits fail.
HalfFilledSkipped ==
    (RowInTurn /\ HalfFilled(rows[pos])) => sphase # "failed"

\* C17: a destination conflict is fatal.  No ridge directory and no summit
\* document is created at a path where one exists: a document is written at
\* most once in a run, and what is at a path stays as it is; the step that
\* meets an existing path fails.
DestinationConflictFatal ==
    /\ \A j, k \in DOMAIN writeLog : writeLog[j][1] = writeLog[k][1] => j = k
    /\ \A j \in DOMAIN writeLog : docs[writeLog[j][1]] = writeLog[j][2]
    /\ \A j \in 1..(rpos - 1) :
           dirs[ridge_rows[j][1]] = [name |-> ridge_rows[j][2], color |-> ridge_rows[j][3]]

\* C20: absent coordinates.  A summit whose coordinates are NULL (None after
\* cast_point) does not abort import_summits: with its ridge directory there,
\* the start of its group does not fail.
AbsentCoordinatesTolerated ==
    (/\ sphase = "failed"
     /\ pos <= Len(rows)
     /\ rows[pos][8] = None)
        => (summit # None /\ summit[2] \notin DOMAIN dirs)

-----------------------------------------------------------------------------
(* The uploader's liveness *)

\* upload_images_bulk is back in its caller, returned or raised, with no task
\* left before the semaphore or inside upload_image and every permit back
Quiescent ==
    /\ bulk \in {"returned", "failed"}
    /\ \A t \in Tasks : st[t] \in {"ok", "skip", "err", "cancelled"}
    /\ sem = SemLimit

\* a step of the uploader can be taken
CanStep ==
    \/ bulk = "raising"
    \/ InFlight # {}
    \/ \E t \in Tasks : st[t] = "created"
    \/ \E t \in Tasks : st[t] = "waiting" /\ ~SemLocked
    \/ \A t \in Tasks : st[t] \in {"ok", "skip"}

\* C18: liveness of the uploader.  When started probes and uploads return and
\* the event loop is fair, upload_images_bulk on a list longer than the
\* semaphore's limit is eventually back in its caller and stays there, with no
\* task still waiting for a permit; until then a step can always be taken (no
\* deadlock); at every moment the permits out are exactly those of the tasks
\* inside upload_image, so a permit is given back when its task ends, by
\* success, skip, error or cancellation.
UploaderLive ==
    /\ <>[]Quiescent
    /\ [](sem = SemLimit - Cardinality(InFlight))
    /\ [](bulk \in {"running", "raising"} => CanStep)

\* the task beyond the limit waited, got the permit of a task that failed, and
\* finished; the call is over with all permits back
UploaderLiveWitness ==
    /\ bulk = "failed"
    /\ sem = SemLimit
    /\ Len(tasks) > SemLimit
    /\ \E t \in Tasks : t > SemLimit /\ st[t] \in {"ok", "skip"}
    /\ \E u \in Tasks : st[u] = "err"

=============================================================================
